---------------------------- MODULE Spec2Model ----------------------------
(***************************************************************************)
(* Column semantic inference and cleaning pipeline of df-analyze           *)
(* (src/src/preprocessing/inspection.py, cleaning.py, prepare.py).         *)
(*                                                                         *)
(* A column (pandas Series) is a record [dtype, vals]: its dtype and the   *)
(* bag of its cells (cell -> number of rows holding it).  The row index is *)
(* the default 0..N-1 index.  A cell is a record [k, v]:                   *)
(*   k = "int"    the native integer v               (dtype int64)         *)
(*   k = "float"  the native float v/2               (dtype float64)       *)
(*   k = "istr"   the string that is the decimal text of the integer v     *)
(*   k = "fstr"   the string that is the repr of the float v/2 ("0.5")     *)
(*   k = "date"   a string the date parser accepts (the v-th such string)  *)
(*   k = "word"   a string that is neither a number nor a date             *)
(*   k = "ovf"    a string on which the date parser raises OverflowError   *)
(*   k = "nan"    the missing value NaN                                    *)
(* Floats are kept doubled (v = 2 * value), so halves stay integers.       *)
(***************************************************************************)
EXTENDS Integers, Sequences, FiniteSets, TLC

VARIABLES series, verdict,
          df, categoricals, ordinals, results,
          target, encoded,
          tables, prepared,
          raw, cleaned,
          pipeline

vars == <<series, verdict, df, categoricals, ordinals, results,
          target, encoded, tables, prepared, raw, cleaned, pipeline>>

N_CAT_LEVEL_MIN == 20

\* ------------------------------------------------------------------ bounds
MaxLevels == 3
MaxInt == 5

\* ------------------------------------------------------------------ cells
Cell(k, v) == [k |-> k, v |-> v]

NaN == Cell("nan", 0)

\* str(x) of one cell: a native number and the string spelling it coincide
Str(c) ==
    CASE c.k = "int" -> Cell("istr", c.v)
      [] c.k = "float" -> Cell("fstr", c.v)
      [] OTHER -> c

\* pd.isna of one cell
IsNa(c) == c.k = "nan"

\* pd.to_numeric(errors="coerce") of one cell, as a doubled number; NaN when
\* the cell does not parse
ToNumeric(c) ==
    CASE c.k \in {"int", "istr"} -> Cell("float", 2 * c.v)
      [] c.k \in {"float", "fstr"} -> Cell("float", c.v)
      [] OTHER -> NaN

\* ------------------------------------------------------------------ bags
RECURSIVE SumOver(_, _)
SumOver(f, S) ==
    IF S = {} THEN 0
    ELSE LET x == CHOOSE y \in S : TRUE
         IN  f[x] + SumOver(f, S \ {x})

\* len(series)
NRows(vals) == SumOver(vals, DOMAIN vals)

\* the bag of F(c) for the cells c of vals
MapBag(vals, F(_)) ==
    LET img == {F(c) : c \in DOMAIN vals}
    IN  [y \in img |-> SumOver(vals, {c \in DOMAIN vals : F(c) = y})]

\* the rows of vals whose cell satisfies P
FilterBag(vals, P(_)) ==
    [c \in {d \in DOMAIN vals : P(d)} |-> vals[c]]

\* series.astype(str)
astype_str(vals) == MapBag(vals, Str)

\* series.dropna()
dropna(vals) == FilterBag(vals, LAMBDA c : ~IsNa(c))

MaxOf(S) == CHOOSE x \in S : \A y \in S : y <= x

MinOf(S) == CHOOSE x \in S : \A y \in S : x <= y

\* a (verdict, reason) pair; exc names the exception raised instead, if any
V(v, desc) == [v |-> v, desc |-> desc, exc |-> "none"]

Raise(exc) == [v |-> FALSE, desc |-> "", exc |-> exc]

\* ------------------------------------------------- numeric-coercion probe
\* converts_to_int: series.astype(int) succeeds, or convert_dtypes yields an
\* integer or boolean dtype
converts_to_int(s) ==
    LET cells == DOMAIN s.vals
        nonna == {c \in cells : ~IsNa(c)}
    IN  CASE s.dtype = "int64" -> TRUE
          [] s.dtype = "float64" ->
                \* astype(int) truncates unless a NaN is present; then
                \* convert_dtypes gives Int64 iff every value is integral
                \/ nonna = cells
                \/ \A c \in nonna : c.v % 2 = 0
          [] OTHER ->
                \* object: int(x) of every cell; strings never infer to Int64
                \/ \A c \in cells : c.k = "istr"
                \/ nonna = {}

\* converts_to_float: str(float(x)) == x for every cell, or convert_dtypes
\* yields a floating dtype
converts_to_float(s) ==
    LET cells == DOMAIN s.vals
    IN  CASE s.dtype = "int64" -> FALSE
          [] s.dtype = "float64" -> TRUE
          [] OTHER ->
                \/ \A c \in cells : c.k = "fstr"
                \/ \A c \in cells : IsNa(c)

\* is_timelike of one stringified value: "true", "false" or "raise"
is_timelike(t) ==
    CASE t.k = "istr" -> "false"      \* int(s) succeeds
      [] t.k \in {"fstr", "nan"} -> "false"   \* float(s) succeeds
      [] t.k = "date" -> "true"       \* parse(s) succeeds
      [] t.k = "ovf" -> "raise"       \* parse(s) raises OverflowError
      [] OTHER -> "false"             \* parse(s) raises ValueError

\* the number of rows drawn for the time check
n_subsamp(N) ==
    LET half == (N + 1) \div 2
        n == IF half > 500 THEN half ELSE 500
    IN  IF n < N THEN n ELSE N

RECURSIVE SubBags(_, _)
\* the bags of n rows drawn without replacement from vals
SubBags(vals, n) ==
    IF DOMAIN vals = {} THEN (IF n = 0 THEN {vals} ELSE {})
    ELSE LET c == CHOOSE d \in DOMAIN vals : TRUE
             rest == [d \in DOMAIN vals \ {c} |-> vals[d]]
             lo == IF n - NRows(rest) > 0 THEN n - NRows(rest) ELSE 0
             hi == IF vals[c] < n THEN vals[c] ELSE n
         IN  UNION {
               { IF k = 0 THEN r ELSE [d \in DOMAIN r \cup {c} |->
                                         IF d = c THEN k ELSE r[d]]
                 : r \in SubBags(rest, n - k) }
               : k \in lo..hi }

\* the subsamples series.iloc[np.random.permutation(N)[:n_subsamp]] can be
Subsamples(s) ==
    LET strs == astype_str(s.vals)
        N == NRows(strs)
    IN  IF n_subsamp(N) = N THEN {strs} ELSE SubBags(strs, n_subsamp(N))

\* what series.loc[idx] gives: the rows `rows`, or the raising of `exc`
RowsAt(rows) == [exc |-> "none", rows |-> rows]

NoLabel == [exc |-> "KeyError", rows |-> <<>>]

\* the index of a series: the default 0..N-1 ("range"), the labels 0..N-1 in
\* another order ("permuted"), or labels among which one of 0..N-1 is missing
\* ("gaps"), as after rows were filtered out
IndexKinds == {"range", "permuted", "gaps"}

\* series.loc[idx] for the positions idx that gave the subsample `sub` of the
\* stringified rows `strs`: the same rows under the default index; the rows
\* labelled idx otherwise, which are all rows when idx is all of 0..N-1 and
\* some rows when it is not; KeyError when a label of idx is missing
loc_idx(strs, sub, index) ==
    LET N == NRows(strs)
        some == IF NRows(sub) = N THEN {RowsAt(strs)}
                ELSE {RowsAt(r) : r \in SubBags(strs, NRows(sub))}
    IN  CASE index = "range" -> {RowsAt(sub)}
          [] index = "permuted" -> some
          [] OTHER -> IF N = 0 THEN {RowsAt(sub)}
                      ELSE IF NRows(sub) = N THEN {NoLabel}
                      ELSE {NoLabel} \cup some

\* the variant that leaves it all to the date parser, for which a number is
\* a date
looks_timelike_by_parse(s, sub, second) ==
    LET strs == astype_str(s.vals)
        n == NRows(sub)
        hits == SumOver(sub, {t \in DOMAIN sub : t.k \in {"date", "istr", "fstr"}})
    IN  IF \A t \in DOMAIN strs : strs[t] > N_CAT_LEVEL_MIN
        THEN V(FALSE, "Looks like well-sampled categorical")
        ELSE IF hits >= n
        THEN V(TRUE, "100% of data parses as datetime")
        ELSE IF 3 * hits > n /\ 2 * hits > n
        THEN V(TRUE, "% of data appears parseable as datetime data")
        ELSE V(FALSE, "")

\* the second look of looks_timelike, at series.loc[idx]
looks_timelike_mean(second) ==
    LET rows == second.rows
        hits == SumOver(rows, {t \in DOMAIN rows : is_timelike(t) = "true"})
    IN  IF second.exc # "none" THEN Raise(second.exc)
        ELSE IF \E t \in DOMAIN rows : is_timelike(t) = "raise"
        THEN Raise("OverflowError")
        ELSE IF 2 * hits > NRows(rows)
        THEN V(TRUE, "% of data appears parseable as datetime data")
        ELSE V(FALSE, "")

\* looks_timelike, given the subsample `sub` = series.iloc[idx] its random
\* permutation draws and the outcome `second` of series.loc[idx]
looks_timelike(s, sub, second) ==
    IF converts_to_int(s) THEN V(FALSE, "Converts to int")
    ELSE IF converts_to_float(s) THEN V(FALSE, "Converts to float")
    ELSE
      LET strs == astype_str(s.vals)
          n == NRows(sub)
          hits == SumOver(sub, {t \in DOMAIN sub : is_timelike(t) = "true"})
      IN  IF \A t \in DOMAIN strs : strs[t] > N_CAT_LEVEL_MIN
          THEN V(FALSE, "Looks like well-sampled categorical")
          ELSE IF \E t \in DOMAIN sub : is_timelike(t) = "raise"
          THEN Raise("OverflowError")
          ELSE IF hits >= n
          THEN V(TRUE, "100% of data parses as datetime")
          ELSE IF 3 * hits > n
          THEN looks_timelike_mean(second)
          ELSE V(FALSE, "")

\* ---------------------------------------------------------- the heuristics
\* prob_unq_ordinals, as the exact fraction num / den
prob_unq_ordinals(n_samples, ordinal_max) ==
    LET RECURSIVE prod(_)
        prod(i) == IF i > n_samples - 2 THEN [num |-> 1, den |-> 1]
                   ELSE LET p == prod(i + 1)
                        IN  [num |-> (ordinal_max - i) * p.num,
                             den |-> ordinal_max * p.den]
    IN  IF n_samples > ordinal_max THEN [num |-> 0, den |-> 1] ELSE prod(1)

\* int(x) of a doubled non-negative number
Trunc(c) == c.v \div 2

\* maybe_large_ordinal: prob >= 0.5
maybe_large_ordinal(vals) ==
    LET prob == prob_unq_ordinals(NRows(vals), MaxOf({c.v : c \in DOMAIN vals}) \div 2)
    IN  2 * prob.num >= prob.den

\* pd.to_numeric(series, errors="coerce") as a series
to_numeric(s) ==
    [dtype |-> IF \A c \in DOMAIN s.vals : c.k \in {"int", "istr"}
               THEN "int64" ELSE "float64",
     vals |-> MapBag(s.vals, ToNumeric)]

\* np.diff(np.sort(unq_ints)) as the set np.unique makes of it
unq_diffs(unq) ==
    {b - a : <<a, b>> \in {p \in unq \X unq :
                              /\ p[1] < p[2]
                              /\ ~\E m \in unq : p[1] < m /\ m < p[2]}}

\* the variant without the reason of the binary columns
evenly_spaced_plain(vmin, vmax) == V(TRUE, "Increasing integers")

\* the verdict on a column whose sorted distinct integers have one gap
evenly_spaced(vmin, vmax) ==
    IF vmin = 0 /\ vmax = 1
    THEN V(TRUE, "Binary {0, 1} indicator")
    ELSE V(TRUE, "Increasing integers")

\* the variant that knows the Likert-type scales only
common_scale_likert(imax) ==
    IF imax \in {4, 6}
    THEN V(TRUE, "Largest int is a common 0-indexed Likert-type scale value")
    ELSE IF imax \in {5, 7}
    THEN V(TRUE, "Largest int is a common Likert-type scale value")
    ELSE V(FALSE, "")

\* the verdict on a column whose largest integer may be the top of a rating
\* scale with missing levels
common_scale(imax) ==
    IF imax \in {4, 6}
    THEN V(TRUE, "Largest int is a common 0-indexed Likert-type scale value")
    ELSE IF imax \in {5, 7}
    THEN V(TRUE, "Largest int is a common Likert-type scale value")
    ELSE IF imax \in {10, 100}
    THEN V(TRUE, "Largest int is a common scale max")
    ELSE IF imax \in {9, 99}
    THEN V(TRUE, "Largest int is a common 0-indexed scale max")
    ELSE V(FALSE, "")

looks_ordinal(s) ==
    LET forced == to_numeric(s)
        dropped == [dtype |-> forced.dtype, vals |-> dropna(forced.vals)]
        ints == MapBag(dropped.vals, Trunc)
        unq_ints == DOMAIN ints
        imax == MaxOf(unq_ints)
    IN  IF \A c \in DOMAIN forced.vals : IsNa(c) THEN V(FALSE, "")
        ELSE IF ~converts_to_int(dropped) THEN V(FALSE, "")
        ELSE IF \A i \in unq_ints : ints[i] = 1
        THEN IF maybe_large_ordinal(dropped.vals)
             THEN V(TRUE, "All unique values in large range relative to number of samples")
             ELSE V(FALSE, "All unique values")
        ELSE IF Cardinality(unq_diffs(unq_ints)) = 1
        THEN evenly_spaced(MinOf(unq_ints), imax)
        ELSE common_scale(imax)

looks_floatlike(s) ==
    LET forced == to_numeric(s).vals
        n_na == SumOver(forced, {c \in DOMAIN forced : IsNa(c)})
    IN  IF converts_to_int(s) THEN V(FALSE, "Converts to int")
        ELSE IF looks_ordinal(s).v THEN V(FALSE, "Looks ordinal")
        ELSE IF \A c \in DOMAIN s.vals : c.k \in {"int", "float", "istr", "fstr", "nan"}
        THEN V(TRUE, "All values are not integers and convert to float")
        ELSE IF \A c \in DOMAIN forced : IsNa(c)
        THEN V(FALSE, "No values parse as valid floats")
        ELSE IF 5 * n_na > NRows(forced)
        THEN V(TRUE, "More than 20% of values parse as floats, but couldn't parse values")
        ELSE V(FALSE, "Less than 20% of values parse as floats")

\* looks_id_like without its first test, the uniqueness of the whole column
looks_id_like_dropna_only(s) ==
    LET dropped == dropna(s.vals)
        unqs == DOMAIN dropped
    IN  IF looks_floatlike(s).v THEN V(FALSE, "Appears float-like")
        ELSE IF 2 * NRows(dropped) < NRows(s.vals)
        THEN V(FALSE, "More than half of data is NaN")
        ELSE IF \A c \in unqs : dropped[c] = 1
        THEN V(TRUE, "All non-NaN values are unique")
        ELSE IF 2 * Cardinality(unqs) >= NRows(dropped)
        THEN V(TRUE, "More unique values than one half of number of non-NaN samples")
        ELSE V(FALSE, "")

\* looks_id_like giving up on a column of which half is NaN already
looks_id_like_half_nan(s) ==
    LET strs == astype_str(s.vals)
        dropped == dropna(s.vals)
        unqs == DOMAIN dropped
    IN  IF looks_floatlike(s).v THEN V(FALSE, "Appears float-like")
        ELSE IF \A t \in DOMAIN strs : strs[t] = 1
        THEN V(TRUE, "All values including possible NaNs are unique")
        ELSE IF 2 * NRows(dropped) <= NRows(s.vals)
        THEN V(FALSE, "More than half of data is NaN")
        ELSE IF \A c \in unqs : dropped[c] = 1
        THEN V(TRUE, "All non-NaN values are unique")
        ELSE IF 2 * Cardinality(unqs) >= NRows(dropped)
        THEN V(TRUE, "More unique values than one half of number of non-NaN samples")
        ELSE V(FALSE, "")

\* looks_id_like on an object or numeric column; a column of pandas
\* categorical dtype takes a branch of its own, and inspect_data casts such
\* columns to the dtype of their categories before any check runs
looks_id_like(s) ==
    LET strs == astype_str(s.vals)
        dropped == dropna(s.vals)
        unqs == DOMAIN dropped
    IN  IF looks_floatlike(s).v THEN V(FALSE, "Appears float-like")
        ELSE IF \A t \in DOMAIN strs : strs[t] = 1
        THEN V(TRUE, "All values including possible NaNs are unique")
        ELSE IF 2 * NRows(dropped) < NRows(s.vals)
        THEN V(FALSE, "More than half of data is NaN")
        ELSE IF \A c \in unqs : dropped[c] = 1
        THEN V(TRUE, "All non-NaN values are unique")
        ELSE IF 2 * Cardinality(unqs) >= NRows(dropped)
        THEN V(TRUE, "More unique values than one half of number of non-NaN samples")
        ELSE V(FALSE, "")

looks_categorical(s, sub) ==
    LET timelike == looks_timelike(s, sub, RowsAt(sub))
    IN  IF looks_floatlike(s).v THEN V(FALSE, "Converts to float")
        ELSE IF timelike.exc # "none" THEN timelike
        ELSE IF timelike.v THEN V(FALSE, "Looks timelike")
        ELSE IF looks_id_like(s).v THEN V(FALSE, "Looks identifier-like")
        ELSE IF ~converts_to_int(s) THEN V(TRUE, "String data")
        ELSE IF ~looks_ordinal(s).v THEN V(TRUE, "Integer data but not ordinal-like")
        ELSE V(TRUE, "Either categorical or ordinal")

looks_constant(s) ==
    IF Cardinality(DOMAIN astype_str(s.vals)) = 1
    THEN V(TRUE, "Single value even if including NaNs")
    ELSE V(FALSE, "Two or more unique values including NaNs")

\* ------------------------------------------------------- column classifier
\* an unset Optional[str] field
None == "None"

ColumnDescriptions(col) ==
    [kind |-> "desc", col |-> col, const |-> None, time |-> None,
     ord |-> None, id |-> None, float |-> None, cat |-> None]

\* the cascade run to its end on a constant column too
describe_column_no_stop(col, cats, ords, const, time, ord, id, float, cat) ==
    LET result == ColumnDescriptions(col)
        undeclared == (col \notin ords) /\ (col \notin cats)
        r_const == IF const.v THEN [result EXCEPT !.const = const.desc] ELSE result
        r_ord == IF ord.v /\ undeclared
                 THEN [r_const EXCEPT !.ord = ord.desc] ELSE r_const
        r_id == IF id.v THEN [r_ord EXCEPT !.id = id.desc] ELSE r_ord
    IN  IF float.v THEN [r_id EXCEPT !.float = float.desc] ELSE r_id

\* the cascade of inspect_str_column over the verdicts of the six checks, in
\* the order the code consults them.  An exception raised by a check is
\* returned as (col, exception).
describe_column(col, cats, ords, const, time, ord, id, float, cat) ==
    LET result == ColumnDescriptions(col)
        undeclared == (col \notin ords) /\ (col \notin cats)
        r_ord == IF ord.v /\ undeclared
                 THEN [result EXCEPT !.ord = ord.desc] ELSE result
        r_id == IF id.v THEN [r_ord EXCEPT !.id = id.desc] ELSE r_ord
        r_float == IF float.v THEN [r_id EXCEPT !.float = float.desc] ELSE r_id
    IN  IF const.v THEN [result EXCEPT !.const = const.desc]
        ELSE IF time.exc # "none"
        THEN [kind |-> "error", col |-> col, exc |-> time.exc]
        ELSE IF time.v THEN [result EXCEPT !.time = time.desc]
        ELSE IF float.v \/ id.v \/ time.v THEN r_float
        ELSE IF cat.exc # "none"
        THEN [kind |-> "error", col |-> col, exc |-> cat.exc]
        ELSE IF cat.v /\ undeclared
        THEN [r_float EXCEPT !.cat = cat.desc]
        ELSE r_float

\* inspect_str_column: the checks of one column and their cascade.  sub1 and
\* sub2 are the subsamples drawn by its two calls of looks_timelike, on a
\* column with the default index.
inspect_str_column(col, s, cats, ords, sub1, sub2) ==
    describe_column(col, cats, ords, looks_constant(s), looks_timelike(s, sub1, RowsAt(sub1)),
                    looks_ordinal(s), looks_id_like(s), looks_floatlike(s),
                    looks_categorical(s, sub2))

\* ------------------------------------------------- inflation detector
\* get_unq_counts for one column: (unique count, count without the NaN level)
get_unq_counts(s) ==
    LET unqs == DOMAIN astype_str(s.vals)
        nans == \E c \in DOMAIN s.vals : IsNa(c)
    IN  [unique |-> Cardinality(unqs),
         nanless |-> Cardinality(unqs) - (IF nans THEN 1 ELSE 0)]

\* the loop body with a level kept only above N_CAT_LEVEL_MIN rows
inflation_info_strict(col, s) ==
    LET cnts == astype_str(s.vals)
        unqs == DOMAIN cnts
        keep_idx == {u \in unqs : cnts[u] > N_CAT_LEVEL_MIN}
        n_keep == Cardinality(keep_idx)
    IN  IF Cardinality(unqs) <= 2 \/ keep_idx = unqs THEN {}
        ELSE {[col |-> col, to_deflate |-> unqs \ keep_idx, to_keep |-> keep_idx,
               n_deflate |-> Cardinality(unqs) - n_keep, n_keep |-> n_keep,
               n_total |-> Cardinality(unqs)]}

\* the loop body of detect_big_cats for one column: the InflationInfo records
\* it appends (none or one)
inflation_info(col, s) ==
    LET cnts == astype_str(s.vals)
        unqs == DOMAIN cnts
        n_total == Cardinality(unqs)
        keep_idx == {u \in unqs : cnts[u] >= N_CAT_LEVEL_MIN}
        n_keep == Cardinality(keep_idx)
        n_deflate == Cardinality(unqs) - n_keep
    IN  IF n_total <= 2 THEN {}
        ELSE IF keep_idx = unqs THEN {}
        ELSE {[col |-> col, to_deflate |-> unqs \ keep_idx, to_keep |-> keep_idx,
               n_deflate |-> n_deflate, n_keep |-> n_keep, n_total |-> n_total]}

\* detect_big_cats: (big_cats, inflation_infos)
detect_big_cats(frame, unique_counts, all_cats) ==
    LET big_cats == {col \in all_cats :
                       col \in DOMAIN unique_counts /\ unique_counts[col] >= 20}
    IN  [bigs |-> [col \in big_cats |-> unique_counts[col]],
         inflation |-> UNION {inflation_info(col, frame[col]) : col \in all_cats}]

\* ------------------------------------------------- inspection aggregator
\* the columns of `order` that satisfy P, in order
ColsWhere(order, P(_)) == SelectSeq(order, P)

\* the dict {desc.col: desc.<field>} over the descriptions that set the field
Descs(descs, field) ==
    LET idx == {i \in DOMAIN descs : descs[i][field] # None}
    IN  [c \in {descs[i].col : i \in idx} |->
            descs[CHOOSE i \in idx : descs[i].col = c][field]]

\* a merge loop that passes over the workers that returned an exception
merge_descs_skipping(all) ==
    LET descs == SelectSeq(all, LAMBDA d : d.kind = "desc")
    IN  [status |-> "ok",
         floats |-> Descs(descs, "float"), ords |-> Descs(descs, "ord"),
         ids |-> Descs(descs, "id"), times |-> Descs(descs, "time"),
         cats |-> Descs(descs, "cat"), consts |-> Descs(descs, "const")]

\* the merge loop of inspect_str_columns over the workers' results: it raises
\* InspectionError at the first worker that returned an exception
merge_descs(descs) ==
    LET failed == {i \in DOMAIN descs : descs[i].kind = "error"}
    IN  IF failed # {}
        THEN [status |-> "InspectionError", col |-> descs[MinOf(failed)].col,
              cause |-> descs[MinOf(failed)].exc]
        ELSE [status |-> "ok",
              floats |-> Descs(descs, "float"), ords |-> Descs(descs, "ord"),
              ids |-> Descs(descs, "id"), times |-> Descs(descs, "time"),
              cats |-> Descs(descs, "cat"), consts |-> Descs(descs, "const")]

\* inspect_str_columns: one worker per column, then the merge loop
inspect_str_columns(frame, str_cols, cats, ords, subs) ==
    merge_descs([i \in DOMAIN str_cols |->
                    inspect_str_column(str_cols[i], frame[str_cols[i]], cats, ords,
                                       subs[str_cols[i]][1], subs[str_cols[i]][2])])

\* the three results inspect_int_columns returns: results[1], [2] and [5]
int_results(res) ==
    IF res.status # "ok" THEN res
    ELSE [status |-> "ok", ords |-> res.ords, ids |-> res.ids, consts |-> res.consts]

inspect_int_columns(frame, int_cols, cats, ords, subs) ==
    int_results(inspect_str_columns(frame, int_cols, cats, ords, subs))

inspect_other_columns(frame, other_cols) ==
    [c \in {d \in other_cols : looks_constant(frame[d]).v} |->
        looks_constant(frame[c]).desc]

\* InspectionInfo.merge of dicts with disjoint keys
merge(d1, d2, d3) ==
    [c \in DOMAIN d1 \cup DOMAIN d2 \cup DOMAIN d3 |->
       IF c \in DOMAIN d3 THEN d3[c] ELSE IF c \in DOMAIN d2 THEN d2[c] ELSE d1[c]]

\* inspect_data after the three inspections: the cardinality lists, the
\* ambiguity test and the InspectionResults.  X is df without the target.
build_results(X, strs, ints, other_consts, user_cats, user_ords) ==
    LET all_cats == user_cats \cup DOMAIN strs.cats
        counts == [c \in DOMAIN X |-> get_unq_counts(X[c])]
        big == detect_big_cats(X, [c \in DOMAIN X |-> counts[c].unique], all_cats)
        all_ordinals == DOMAIN strs.ords \cup DOMAIN ints.ords
        ambiguous == ((all_ordinals \cap DOMAIN strs.cats) \ user_cats) \ user_ords
    IN  IF ambiguous # {} THEN [status |-> "TypeError", cols |-> ambiguous]
        ELSE [status |-> "ok",
              floats |-> strs.floats, ords |-> strs.ords, ids |-> strs.ids,
              times |-> strs.times,
              consts |-> merge(strs.consts, ints.consts, other_consts),
              cats |-> strs.cats,
              int_ords |-> ints.ords, int_ids |-> ints.ids,
              big_cats |-> big.bigs, inflation |-> big.inflation,
              bin_cats |-> {c \in DOMAIN X : counts[c].nanless = 2} \cap all_cats,
              nyan_cats |-> [c \in {d \in DOMAIN X : counts[d].nanless = 1}
                                     \cap all_cats |->
                                "Constant when dropping NaNs"],
              multi_cats |-> {c \in DOMAIN X : counts[c].nanless > 2} \cap all_cats]

\* the three inspections of inspect_data: an InspectionError of the string
\* columns, else one of the integer columns, else the results
after_inspections(X, strs, ints, other_consts, user_cats, user_ords) ==
    IF strs.status # "ok" THEN strs
    ELSE IF ints.status # "ok" THEN ints
    ELSE build_results(X, strs, ints, other_consts, user_cats, user_ords)

\* df.drop(columns=target)
drop(frame, tgt) == [c \in DOMAIN frame \ {tgt} |-> frame[c]]

\* inspect_data.  `order` is df.columns, `subs` the subsamples drawn for the
\* time checks of each column.
inspect_data(frame, order, tgt, user_cats, user_ords, subs) ==
    after_inspections(
        drop(frame, tgt),
        inspect_str_columns(drop(frame, tgt),
            ColsWhere(order, LAMBDA c : c # tgt /\ frame[c].dtype = "object"),
            user_cats, user_ords, subs),
        inspect_int_columns(drop(frame, tgt),
            ColsWhere(order, LAMBDA c : c # tgt /\ frame[c].dtype = "int64"),
            user_cats, user_ords, subs),
        inspect_other_columns(drop(frame, tgt),
            {c \in DOMAIN frame \ {tgt} : frame[c].dtype \notin {"object", "int64"}}),
        user_cats, user_ords)

\* ------------------------------------------------------------ input columns
\* the bags with at most MaxLevels distinct cells out of `cells`, each held
\* by a number of rows out of `counts`
BagsOver(cells, counts) ==
    UNION {[S -> counts] : S \in {T \in SUBSET cells :
                                    Cardinality(T) \in 1..MaxLevels}}

\* row counts around the thresholds of the heuristics
Counts == {1, N_CAT_LEVEL_MIN - 1, N_CAT_LEVEL_MIN}

IntCells == {Cell("int", v) : v \in 0..MaxInt}

ObjectCells ==
    {Cell("istr", v) : v \in 0..1} \cup {Cell("fstr", v) : v \in {1, 3}}
    \cup {Cell("date", v) : v \in 0..1} \cup {Cell("word", v) : v \in 0..1}
    \cup {Cell("ovf", 0), NaN}

\* object columns hold at least one string
SeriesPool ==
    {[dtype |-> "int64", vals |-> b] : b \in BagsOver(IntCells, Counts)}
    \cup {[dtype |-> "object", vals |-> b] :
            b \in {c \in BagsOver(ObjectCells, Counts) : DOMAIN c # {NaN}}}

NoVerdict == [op |-> "none"]

NoSeries == [dtype |-> "none", vals |-> <<>>]

\* ----------------------------------------------------- one column at a time
IdleTable ==
    /\ df = <<>> /\ categoricals = {} /\ ordinals = {}
    /\ results = [status |-> "none"]

IdleTarget == target = <<>> /\ encoded = [status |-> "none"]

IdlePrepared == tables = <<>> /\ prepared = [status |-> "none"]

NoCall == [op |-> "none", out |-> [status |-> "none"]]

IdleClean == raw = <<>> /\ cleaned = NoCall

IdlePipeline == pipeline = [pc |-> "none"]

InitColumn ==
    /\ series \in SeriesPool
    /\ verdict = NoVerdict
    /\ IdleTable /\ IdleTarget /\ IdlePrepared /\ IdleClean /\ IdlePipeline

CallLooksConstant ==
    /\ verdict.op = "none"
    /\ verdict' = [op |-> "looks_constant", out |-> looks_constant(series)]
    /\ UNCHANGED <<series, df, categoricals, ordinals, results, target, encoded,
                   tables, prepared,
                   raw, cleaned, pipeline>>

CallLooksIdLike ==
    /\ verdict.op = "none"
    /\ verdict' = [op |-> "looks_id_like", out |-> looks_id_like(series)]
    /\ UNCHANGED <<series, df, categoricals, ordinals, results, target, encoded,
                   tables, prepared,
                   raw, cleaned, pipeline>>

CallInspectStrColumn ==
    /\ verdict.op = "none"
    /\ \E sub1 \in Subsamples(series), sub2 \in Subsamples(series),
          declared \in {"none", "cats", "ords"} :
         verdict' = [op |-> "inspect_str_column", declared |-> declared,
                     out |-> inspect_str_column("c", series,
                                 IF declared = "cats" THEN {"c"} ELSE {},
                                 IF declared = "ords" THEN {"c"} ELSE {},
                                 sub1, sub2)]
    /\ UNCHANGED <<series, df, categoricals, ordinals, results, target, encoded,
                   tables, prepared,
                   raw, cleaned, pipeline>>

\* inspect_str_columns on the table whose only column is `series`
CallInspectStrColumns ==
    /\ verdict.op = "none"
    /\ \E sub1 \in Subsamples(series), sub2 \in Subsamples(series) :
         verdict' = [op |-> "inspect_str_columns",
                     out |-> inspect_str_columns([c \in {"c"} |-> series], <<"c">>,
                                 {}, {}, [c \in {"c"} |-> <<sub1, sub2>>])]
    /\ UNCHANGED <<series, df, categoricals, ordinals, results, target, encoded,
                   tables, prepared,
                   raw, cleaned, pipeline>>

\* detect_big_cats on the table whose only column is `series`, a categorical
CallDetectBigCats ==
    /\ verdict.op = "none"
    /\ verdict' = [op |-> "detect_big_cats",
                   out |-> detect_big_cats([c \in {"c"} |-> series],
                               [c \in {"c"} |-> get_unq_counts(series).unique],
                               {"c"})]
    /\ UNCHANGED <<series, df, categoricals, ordinals, results, target, encoded,
                   tables, prepared,
                   raw, cleaned, pipeline>>

\* ------------------------------------------------------- timestamp removal
\* the verdicts of looks_timelike on the object columns of a table, of which
\* dropna(axis="index") has left the rows `kept`, with their labels
time_verdicts(frame, kept, sub, second) ==
    [c \in {d \in DOMAIN frame : frame[d].dtype = "object"} |->
        looks_timelike([dtype |-> "object", vals |-> kept[c]], sub[c], second[c])]

drops_of(times) ==
    IF \E c \in DOMAIN times : times[c].exc # "none"
    THEN [status |-> times[CHOOSE d \in DOMAIN times : times[d].exc # "none"].exc]
    ELSE [status |-> "ok", drops |-> {c \in DOMAIN times : times[c].v}]

remove_timestamps(frame, kept, sub, second) ==
    drops_of(time_verdicts(frame, kept, sub, second))

\* vals without k of the rows holding c
Without(vals, c, k) ==
    [d \in {e \in DOMAIN vals : e # c \/ vals[c] > k} |->
        IF d = c THEN vals[c] - k ELSE vals[d]]

\* the rows of s that dropna(axis="index") can leave: those without a NaN in
\* s, but for the rows in which another object column of the table has a NaN
KeptRows(s) ==
    {dropna(s.vals)}
    \cup UNION {{Without(dropna(s.vals), c, k) : k \in {1, dropna(s.vals)[c]}} :
                 c \in DOMAIN dropna(s.vals)}

\* looks_timelike on `series` under some index
CallLooksTimelike ==
    /\ verdict.op = "none"
    /\ \E sub \in Subsamples(series), index \in IndexKinds :
         \E second \in loc_idx(astype_str(series.vals), sub, index) :
            verdict' = [op |-> "looks_timelike", index |-> index, sub |-> sub,
                        second |-> second,
                        out |-> looks_timelike(series, sub, second)]
    /\ UNCHANGED <<series, df, categoricals, ordinals, results, target, encoded,
                   tables, prepared,
                   raw, cleaned, pipeline>>

\* the index dropna(axis="index") leaves: the default one when no row went
\* or the last rows did, one with gaps otherwise
IndexLeft(kept, vals) ==
    IF NRows(kept) = NRows(vals) THEN {"range"} ELSE {"range", "gaps"}

\* remove_timestamps on a table in which `series` is the column c
CallRemoveTimestamps ==
    /\ verdict.op = "none"
    /\ \E kept \in KeptRows(series) :
         \E index \in IndexLeft(kept, series.vals) :
            \E second \in loc_idx(astype_str(kept), astype_str(kept), index) :
               verdict' = [op |-> "remove_timestamps", kept |-> kept, index |-> index,
                           out |-> remove_timestamps([c \in {"c"} |-> series],
                                       [c \in {"c"} |-> kept],
                                       [c \in {"c"} |-> astype_str(kept)],
                                       [c \in {"c"} |-> second])]
    /\ UNCHANGED <<series, df, categoricals, ordinals, results, target, encoded,
                   tables, prepared,
                   raw, cleaned, pipeline>>

CallLooksOrdinal ==
    /\ verdict.op = "none"
    /\ verdict' = [op |-> "looks_ordinal", out |-> looks_ordinal(series)]
    /\ UNCHANGED <<series, df, categoricals, ordinals, results, target, encoded,
                   tables, prepared,
                   raw, cleaned, pipeline>>

NextColumn ==
    \/ CallLooksOrdinal
    \/ CallLooksTimelike
    \/ CallRemoveTimestamps
    \/ CallLooksConstant
    \/ CallLooksIdLike
    \/ CallInspectStrColumn
    \/ CallInspectStrColumns
    \/ CallDetectBigCats

SpecColumn == InitColumn /\ [][NextColumn]_vars

\* ------------------------------------------------- columns of scale values
\* integer columns over 0..100, as test_detect_heuristically_ordinal draws
\* them: columns of a few values, and the two columns in which every value of
\* 0..99, of 0..100, occurs once
ScaleValues == {0, 50, 98, 99, 100}

ScaleCounts == {1, 50, 100}

EachOnce(top) == [c \in {Cell("int", v) : v \in 0..top} |-> 1]

ScalePool ==
    {[dtype |-> "int64", vals |-> b] :
        b \in BagsOver({Cell("int", v) : v \in ScaleValues}, ScaleCounts)
                \cup {EachOnce(99), EachOnce(100)}}

InitScale ==
    /\ series \in ScalePool
    /\ verdict = NoVerdict
    /\ IdleTable /\ IdleTarget /\ IdlePrepared /\ IdleClean /\ IdlePipeline

NextScale == CallLooksOrdinal

SpecScale == InitScale /\ [][NextScale]_vars

\* ------------------------------------------------ columns of small ratios
\* object columns of a few rows, in which the share of the rows that are NaN
\* or that parse as numbers is a half, a fifth, or lies on either side
RatioCounts == {1, 2, 4}

RatioCells ==
    {Cell("word", 0), Cell("word", 1), Cell("fstr", 1), Cell("fstr", 3), NaN}

RatioPool ==
    {[dtype |-> "object", vals |-> b] : b \in BagsOver(RatioCells, RatioCounts)}

InitRatio ==
    /\ series \in RatioPool
    /\ verdict = NoVerdict
    /\ IdleTable /\ IdleTarget /\ IdlePrepared /\ IdleClean /\ IdlePipeline

CallLooksFloatlike ==
    /\ verdict.op = "none"
    /\ verdict' = [op |-> "looks_floatlike", out |-> looks_floatlike(series)]
    /\ UNCHANGED <<series, df, categoricals, ordinals, results, target, encoded,
                   tables, prepared, raw, cleaned, pipeline>>

NextRatio ==
    \/ CallLooksIdLike
    \/ CallLooksFloatlike

SpecRatio == InitRatio /\ [][NextRatio]_vars

\* ------------------------------------------------------------ whole tables
\* a table: two predictors and the target, all of the same number of rows
TARGET == "y"

Predictors == {"a", "b"}

\* df.columns
ColumnOrder == <<"a", "b", "y">>

TableLevels == 2

TableCounts == {1, N_CAT_LEVEL_MIN + 1}

TableBags(cells) ==
    UNION {[S -> TableCounts] : S \in {T \in SUBSET cells :
                                         Cardinality(T) \in 1..TableLevels}}

TablePool ==
    {[dtype |-> "int64", vals |-> b] :
        b \in TableBags({Cell("int", v) : v \in 0..1})}
    \cup {[dtype |-> "float64", vals |-> b] :
        b \in TableBags({Cell("float", v) : v \in {1, 3}})}
    \cup {[dtype |-> "object", vals |-> b] :
        b \in TableBags({Cell("istr", 0), Cell("istr", 1), Cell("date", 0),
                         Cell("word", 0), Cell("ovf", 0)})}
    \cup {[dtype |-> "category", categories |-> "object", vals |-> b] :
        b \in TableBags({Cell("word", 0)})}
    \cup {[dtype |-> "category", categories |-> "int64", vals |-> b] :
        b \in TableBags({Cell("int", 0)})}

\* a target of n rows
TargetColumn(n) == [dtype |-> "int64", vals |-> [c \in {Cell("int", 0)} |-> n]]

\* the user lists hold at most this many names in all
MaxDeclared == 1

NoResults == [status |-> "none"]

InitTable ==
    /\ \E X \in [Predictors -> TablePool] :
         /\ \A c, d \in Predictors : NRows(X[c].vals) = NRows(X[d].vals)
         /\ df = [c \in Predictors \cup {TARGET} |->
                   IF c = TARGET THEN TargetColumn(NRows(X["a"].vals)) ELSE X[c]]
    /\ categoricals = {} /\ ordinals = {}
    /\ results = NoResults
    /\ series = NoSeries /\ verdict = NoVerdict
    /\ IdleTarget /\ IdlePrepared /\ IdleClean /\ IdlePipeline

\* the caller names a predictor in `categoricals` for the next call
DeclareCategorical ==
    /\ Cardinality(categoricals) + Cardinality(ordinals) < MaxDeclared
    /\ \E c \in Predictors \ categoricals : categoricals' = categoricals \cup {c}
    /\ results' = NoResults
    /\ UNCHANGED <<series, verdict, df, ordinals, target, encoded, tables, prepared,
                   raw, cleaned, pipeline>>

\* the caller names a predictor in `ordinals` for the next call
DeclareOrdinal ==
    /\ Cardinality(categoricals) + Cardinality(ordinals) < MaxDeclared
    /\ \E c \in Predictors \ ordinals : ordinals' = ordinals \cup {c}
    /\ results' = NoResults
    /\ UNCHANGED <<series, verdict, df, categoricals, target, encoded, tables,
                   prepared,
                   raw, cleaned, pipeline>>

\* the subsamples the time checks of each column can draw
SubsOf(frame) ==
    {f \in [DOMAIN frame -> UNION {Subsamples(frame[c]) \X Subsamples(frame[c]) :
                                     c \in DOMAIN frame}] :
        \A c \in DOMAIN frame : f[c] \in Subsamples(frame[c]) \X Subsamples(frame[c])}

\* the first loop of inspect_data: a column of pandas-categorical dtype is
\* cast to the dtype of its categories and assigned back to df[col]
convert_category_columns(frame) ==
    [c \in DOMAIN frame |->
        IF frame[c].dtype = "category"
        THEN [dtype |-> frame[c].categories, vals |-> frame[c].vals]
        ELSE frame[c]]

\* a call of inspect_data on the caller's table df
InspectData ==
    /\ results.status = "none"
    /\ df' = convert_category_columns(df)
    /\ \E subs \in SubsOf(df') :
         results' = inspect_data(df', ColumnOrder, TARGET, categoricals, ordinals, subs)
    /\ UNCHANGED <<series, verdict, categoricals, ordinals, target, encoded,
                   tables, prepared,
                   raw, cleaned, pipeline>>

Next ==
    \/ DeclareCategorical
    \/ DeclareOrdinal
    \/ InspectData

Spec == InitTable /\ [][Next]_vars

\* ---------------------------------------------------------- parallel workers
\* inspect_str_columns as it runs: Parallel starts one worker per listed
\* column, the workers finish in any order, each with the subsamples its two
\* time checks draw from the random source, and the merge loop passes over the
\* results in the order of the listing.  `verdict` holds the call under way
\* (its listing `order`, the results `descs` of the finished workers) and the
\* results `outs` of the calls made so far.
MaxRuns == 2

\* the rows the time check draws from a column of up to twice as many
SampleRows == 500

WorkerCells == {Cell("date", 0), Cell("word", 0), Cell("ovf", 0)}

\* columns of SampleRows + 1 rows, one more than the time check draws: one
\* value in all rows but one, or dates in one row more than half of them
\* beside a rare word
WorkerPool ==
    {[dtype |-> "object", vals |-> [c \in {x, y} |-> IF c = x THEN SampleRows ELSE 1]] :
        x \in WorkerCells, y \in WorkerCells}
    \cup {[dtype |-> "object",
           vals |-> (Cell("date", 0) :> SampleRows \div 2 + 1)
                    @@ (Cell("word", 0) :> SampleRows \div 2 - 1)
                    @@ (Cell("word", 1) :> 1)]}

NoRuns == [op |-> "runs", order |-> <<>>, descs |-> <<>>, outs |-> <<>>]

InitWorkers ==
    /\ df \in [Predictors -> {s \in WorkerPool : Cardinality(DOMAIN s.vals) >= 2}]
    /\ verdict = NoRuns
    /\ categoricals = {} /\ ordinals = {} /\ results = NoResults
    /\ series = NoSeries
    /\ IdleTarget /\ IdlePrepared /\ IdleClean /\ IdlePipeline

\* a call inspect_str_columns(df, str_cols, ...) with the columns listed in
\* some order
StartInspectStrColumns ==
    /\ verdict.op = "runs"
    /\ verdict.order = <<>>
    /\ Len(verdict.outs) < MaxRuns
    /\ \E order \in {<<"a", "b">>, <<"b", "a">>} :
         verdict' = [verdict EXCEPT !.order = order]
    /\ UNCHANGED <<series, df, categoricals, ordinals, results, target, encoded,
                   tables, prepared, raw, cleaned, pipeline>>

\* the worker of column c returns
WorkerFinishes ==
    /\ verdict.op = "runs"
    /\ verdict.order # <<>>
    /\ \E c \in Predictors \ DOMAIN verdict.descs :
         \E sub1 \in Subsamples(df[c]), sub2 \in Subsamples(df[c]) :
            verdict' = [verdict EXCEPT
                          !.descs = (c :> inspect_str_column(c, df[c], categoricals,
                                                            ordinals, sub1, sub2)) @@ @]
    /\ UNCHANGED <<series, df, categoricals, ordinals, results, target, encoded,
                   tables, prepared, raw, cleaned, pipeline>>

\* all workers have returned: the merge loop runs over their results in the
\* order of the listing
MergeWorkers ==
    /\ verdict.op = "runs"
    /\ verdict.order # <<>>
    /\ DOMAIN verdict.descs = Predictors
    /\ verdict' = [verdict EXCEPT
                     !.outs = Append(@, merge_descs([i \in DOMAIN verdict.order |->
                                                       verdict.descs[verdict.order[i]]])),
                     !.order = <<>>, !.descs = <<>>]
    /\ UNCHANGED <<series, df, categoricals, ordinals, results, target, encoded,
                   tables, prepared, raw, cleaned, pipeline>>

NextWorkers ==
    \/ StartInspectStrColumns
    \/ WorkerFinishes
    \/ MergeWorkers

SpecWorkers == InitWorkers /\ [][NextWorkers]_vars

\* ------------------------------------------------------ columns to sample
\* object columns for the time check: the long ones of the workers, of which
\* the check draws all rows but one, and short ones it reads whole, with
\* levels on either side of N_CAT_LEVEL_MIN rows
SampleCells ==
    {Cell("date", 0), Cell("date", 1), Cell("word", 0), Cell("word", 1), Cell("ovf", 0)}

SampleCounts == {1, N_CAT_LEVEL_MIN, N_CAT_LEVEL_MIN + 1}

SamplePool ==
    WorkerPool
    \cup {[dtype |-> "object", vals |-> b] : b \in BagsOver(SampleCells, SampleCounts)}

InitSample ==
    /\ series \in SamplePool
    /\ verdict = NoVerdict
    /\ IdleTable /\ IdleTarget /\ IdlePrepared /\ IdleClean /\ IdlePipeline

NextSample == CallLooksTimelike

SpecSample == InitSample /\ [][NextSample]_vars

\* -------------------------------------------------- columns of small integers
\* integer columns as rng.choice([*range(8)], size=10, replace=True) draws
\* them: some of the values 0..GapTop, one of them, the least or the largest,
\* in two rows and the others in one
GapTop == 8

GapPool ==
    {[dtype |-> "int64",
      vals |-> [c \in {Cell("int", v) : v \in S} |-> IF c.v = twice THEN 2 ELSE 1]] :
        <<S, twice>> \in {p \in (SUBSET (0..GapTop)) \X (0..GapTop) :
                            /\ Cardinality(p[1]) >= 2
                            /\ p[2] \in {MinOf(p[1]), MaxOf(p[1])}}}

InitGaps ==
    /\ series \in GapPool
    /\ verdict = NoVerdict
    /\ IdleTable /\ IdleTarget /\ IdlePrepared /\ IdleClean /\ IdlePipeline

NextGaps == CallInspectStrColumns

SpecGaps == InitGaps /\ [][NextGaps]_vars

\* -------------------------------------------------------- target encoding
\* an encoder that passes the class values through
label_encode_raw(y) ==
    [c \in DOMAIN y |-> [label |-> c.v, n |-> y[c]]]

\* LabelEncoder().fit_transform: each class gets its rank among the sorted
\* classes present
label_encode(y) ==
    [c \in DOMAIN y |->
        [label |-> Cardinality({d \in DOMAIN y : d.v < c.v}), n |-> y[c]]]

\* encode_target(df, target).  The rows of `frame` are keyed by the target
\* value of the row, so frame and y are filtered by the same masks.
encode_target(frame, y) ==
    LET unqs == DOMAIN y
        idx == {u \in unqs : y[u] <= 20}
        frame1 == IF idx # {} THEN FilterBag(frame, LAMBDA c : c \notin idx) ELSE frame
        y1 == IF idx # {} THEN FilterBag(y, LAMBDA c : c \notin idx) ELSE y
        frame2 == FilterBag(frame1, LAMBDA c : ~IsNa(c))
        y2 == FilterBag(y1, LAMBDA c : ~IsNa(c))
    IN  [status |-> "ok", warned |-> idx # {}, df |-> frame2, y |-> label_encode(y2)]

MaxClass == 2

TargetCounts == {N_CAT_LEVEL_MIN - 1, N_CAT_LEVEL_MIN, N_CAT_LEVEL_MIN + 1}

\* the class values of a target, and the missing label
TargetCells == {Cell("int", v) : v \in 0..MaxClass} \cup {NaN}

InitTarget ==
    /\ \E y \in UNION {[S -> TargetCounts] : S \in SUBSET TargetCells \ {{}}} :
         target = [df |-> y, y |-> y]
    /\ encoded = [status |-> "none"]
    /\ series = NoSeries /\ verdict = NoVerdict
    /\ IdleTable /\ IdlePrepared /\ IdleClean /\ IdlePipeline

EncodeTarget ==
    /\ encoded.status = "none"
    /\ encoded' = encode_target(target.df, target.y)
    /\ UNCHANGED <<series, verdict, df, categoricals, ordinals, results, target,
                   tables, prepared,
                   raw, cleaned, pipeline>>

NextTarget == EncodeTarget

SpecTarget == InitTarget /\ [][NextTarget]_vars

\* ------------------------------------------------- prepared-dataset builder
\* a table is known by its row index, the sequence of its row labels
RangeIndex(n) == [i \in 1..n |-> i - 1]

\* validate without the comparison of the target's row count
validate_unchecked_target(X, X_cont, X_cat, y) ==
    LET n_samples == Len(X)
    IN  IF Len(X_cont) # n_samples
        THEN [status |-> "ValueError", table |-> "Continuous data",
              reported |-> Len(X_cont)]
        ELSE IF Len(X_cat) # n_samples
        THEN [status |-> "ValueError", table |-> "Categorical data",
              reported |-> Len(X_cat)]
        ELSE [status |-> "ok", X |-> RangeIndex(Len(X)),
              X_cont |-> RangeIndex(Len(X)), X_cat |-> RangeIndex(Len(X)),
              y |-> RangeIndex(Len(X))]

\* validate that copies the index of X to the other tables without resetting it
validate_no_reset(X, X_cont, X_cat, y) ==
    LET n_samples == Len(X)
    IN  IF Len(X_cont) # n_samples
        THEN [status |-> "ValueError", table |-> "Continuous data",
              reported |-> Len(X_cont)]
        ELSE IF Len(X_cat) # n_samples
        THEN [status |-> "ValueError", table |-> "Categorical data",
              reported |-> Len(X_cat)]
        ELSE IF Len(y) # n_samples
        THEN [status |-> "ValueError", table |-> "Target", reported |-> Len(X_cat)]
        ELSE [status |-> "ok", X |-> X, X_cont |-> X, X_cat |-> X, y |-> X]

\* PreparedData.validate: the error raised, or the four tables re-indexed
validate(X, X_cont, X_cat, y) ==
    LET n_samples == Len(X)
    IN  IF Len(X_cont) # n_samples
        THEN [status |-> "ValueError", table |-> "Continuous data",
              reported |-> Len(X_cont)]
        ELSE IF Len(X_cat) # n_samples
        THEN [status |-> "ValueError", table |-> "Categorical data",
              reported |-> Len(X_cat)]
        ELSE IF Len(y) # n_samples
        THEN [status |-> "ValueError", table |-> "Target", reported |-> Len(X_cat)]
        ELSE [status |-> "ok", X |-> RangeIndex(Len(X)),
              X_cont |-> RangeIndex(Len(X)), X_cat |-> RangeIndex(Len(X)),
              y |-> RangeIndex(Len(X))]

MaxLabel == 1

RECURSIVE Increasing(_)
\* the strictly increasing sequences of row labels up to n
Increasing(n) ==
    IF n < 0 THEN {<<>>}
    ELSE Increasing(n - 1) \cup {Append(q, n) : q \in Increasing(n - 1)}

TableNames == {"X", "X_cont", "X_cat", "y"}

InitPrepared ==
    /\ tables \in [TableNames -> Increasing(MaxLabel)]
    /\ prepared = [status |-> "none"]
    /\ series = NoSeries /\ verdict = NoVerdict
    /\ IdleTable /\ IdleTarget /\ IdleClean /\ IdlePipeline

\* PreparedData.__init__: validate raises, or re-indexes the caller's tables
\* in place and stores them
Construct ==
    /\ prepared.status = "none"
    /\ LET r == validate(tables.X, tables.X_cont, tables.X_cat, tables.y)
       IN  /\ prepared' = r
           /\ tables' = IF r.status = "ok"
                        THEN [t \in TableNames |-> r[t]]
                        ELSE tables
    /\ UNCHANGED <<series, verdict, df, categoricals, ordinals, results, target,
                   encoded,
                   raw, cleaned, pipeline>>

NextPrepared == Construct

SpecPrepared == InitPrepared /\ [][NextPrepared]_vars

\* ------------------------------------------------------- cleaning pipeline
\* prepare_data (prepare.py) statement by statement.  The table under
\* cleaning is known by its target (the bag of the rows' target values) and
\* by the kinds of predictor columns it still holds; `done` lists the calls
\* made so far.
PipelineColumns == {"id", "time", "cont", "cat"}

\* drop_target_nans: the rows with a missing target are dropped
drop_target_nans(y) == dropna(y)

\* clean_regression_target drops the rows with a missing target before it
\* rescales the others
clean_regression_target(y) == dropna(y)

\* drop_unusable: the columns classified identifier or time are dropped
drop_unusable(cols) == cols \ {"id", "time"}

\* the target as encode_target returns it: the bag of the labels
encoded_labels(r) ==
    [l \in {Cell("int", r.y[c].label) : c \in DOMAIN r.y} |->
        r.y[CHOOSE c \in DOMAIN r.y : r.y[c].label = l.v].n]

\* one-hot encoding replaces the categorical columns by their indicators
one_hot(cols) == IF "cat" \in cols THEN (cols \ {"cat"}) \cup {"cat_indicators"} ELSE cols

InitPipeline ==
    /\ \E y \in UNION {[S -> TargetCounts] : S \in SUBSET TargetCells \ {{}}},
          cols \in SUBSET PipelineColumns \ {{}}, is_classification \in BOOLEAN :
         pipeline = [pc |-> "start", is_classification |-> is_classification,
                     done |-> <<>>, y |-> y, cols |-> cols]
    /\ series = NoSeries /\ verdict = NoVerdict
    /\ IdleTable /\ IdleTarget /\ IdlePrepared /\ IdleClean

\* one statement of prepare_data: the call `name`, made at position `before`
Statement(name, before, y2, cols2) ==
    /\ pipeline.pc = before
    /\ pipeline' = [pipeline EXCEPT !.pc = name, !.done = Append(@, name),
                                    !.y = y2, !.cols = cols2]
    /\ UNCHANGED <<series, verdict, df, categoricals, ordinals, results, target,
                   encoded, tables, prepared, raw, cleaned>>

UnifyNans == Statement("unify_nans", "start", pipeline.y, pipeline.cols)

ConvertCategoricals ==
    Statement("convert_categoricals", "unify_nans", pipeline.y, pipeline.cols)

InspectTarget ==
    Statement("inspect_target", "convert_categoricals", pipeline.y, pipeline.cols)

DropTargetNans ==
    Statement("drop_target_nans", "inspect_target",
              drop_target_nans(pipeline.y), pipeline.cols)

PipelineEncodeTarget ==
    /\ pipeline.is_classification
    /\ Statement("encode_target", "drop_target_nans",
                 encoded_labels(encode_target(pipeline.y, pipeline.y)), pipeline.cols)

CleanRegressionTarget ==
    /\ ~pipeline.is_classification
    /\ Statement("clean_regression_target", "drop_target_nans",
                 clean_regression_target(pipeline.y), pipeline.cols)

DropUnusable ==
    \E before \in {"encode_target", "clean_regression_target"} :
        Statement("drop_unusable", before, pipeline.y, drop_unusable(pipeline.cols))

HandleContinuousNans ==
    Statement("handle_continuous_nans", "drop_unusable", pipeline.y, pipeline.cols)

DeflateCategoricals ==
    Statement("deflate_categoricals", "handle_continuous_nans",
              pipeline.y, pipeline.cols)

EncodeCategoricals ==
    Statement("encode_categoricals", "deflate_categoricals",
              pipeline.y, one_hot(pipeline.cols))

BuildPreparedData ==
    Statement("PreparedData", "encode_categoricals", pipeline.y, pipeline.cols)

NextPipeline ==
    \/ UnifyNans
    \/ ConvertCategoricals
    \/ InspectTarget
    \/ DropTargetNans
    \/ PipelineEncodeTarget
    \/ CleanRegressionTarget
    \/ DropUnusable
    \/ HandleContinuousNans
    \/ DeflateCategoricals
    \/ EncodeCategoricals
    \/ BuildPreparedData

SpecPipeline == InitPipeline /\ [][NextPipeline]_vars

\* ---------------------------------------------------- continuous NaN handling
\* A table with a row index is a record [index, cols]: the sequence of the
\* row labels and, per column, the cells in row order.  An imputed value is
\* the cell Cell("est", 0): the estimate the imputer computed.
NanHandling == {"drop", "mean", "median", "impute"}

MaxRows == 3

Est == Cell("est", 0)

\* the subsequence of q at the positions in keep
Pick(q, keep) ==
    LET F[i \in 0..Len(q)] ==
            IF i = 0 THEN <<>>
            ELSE IF i \in keep THEN Append(F[i - 1], q[i]) ELSE F[i - 1]
    IN F[Len(q)]

\* df.loc[idx]: the rows at the positions in idx, labels kept
loc(t, idx) ==
    [index |-> Pick(t.index, idx),
     cols |-> [c \in DOMAIN t.cols |-> Pick(t.cols[c], idx)]]

\* the columns `names` of t
columns(t, names) == [index |-> t.index, cols |-> [c \in names |-> t.cols[c]]]

Labels(t) == {t.index[i] : i \in DOMAIN t.index}

\* the cell of column c in the row labelled l; NaN when t has no such row
At(t, c, l) ==
    IF l \in Labels(t)
    THEN t.cols[c][CHOOSE i \in DOMAIN t.index : t.index[i] = l]
    ELSE NaN

\* the labels of S in increasing order
RECURSIVE Sorted(_)
Sorted(S) == IF S = {} THEN <<>> ELSE <<MinOf(S)>> \o Sorted(S \ {MinOf(S)})

\* t[name] = s for a column s with its own index: s is aligned on the labels
\* of t, a label s does not have gets NaN
setitem(t, name, s) ==
    [index |-> t.index,
     cols |-> [c \in DOMAIN t.cols \cup {name} |->
                 IF c = name
                 THEN [i \in DOMAIN t.index |-> At(s, name, t.index[i])]
                 ELSE t.cols[c]]]

\* pd.concat([a, b], axis=1): the rows are the union of the two indexes (in
\* the order of a when the indexes are equal, sorted otherwise), and a table
\* has NaN in the rows it does not have
concat(a, b) ==
    LET index == IF a.index = b.index THEN a.index
                 ELSE Sorted(Labels(a) \cup Labels(b))
    IN [index |-> index,
        cols |-> [c \in DOMAIN a.cols \cup DOMAIN b.cols |->
                    [i \in DOMAIN index |->
                        IF c \in DOMAIN a.cols THEN At(a, c, index[i])
                        ELSE At(b, c, index[i])]]]

\* X.dropna(axis="columns").dropna(axis="index"): the columns holding a NaN
\* are dropped first, so that no row is left to drop
dropna_columns_index(X) ==
    columns(X, {c \in DOMAIN X.cols : \A i \in DOMAIN X.index : ~IsNa(X.cols[c][i])})

\* DataFrame(data=imputer.fit_transform(X), columns=X.columns): the imputer
\* wants at least one row and one column and leaves out a column without any
\* observed value, in which case the data do not fit X.columns; the new table
\* has the fresh index 0..n-1
impute(X) ==
    IF \/ Len(X.index) = 0
       \/ DOMAIN X.cols = {}
       \/ \E c \in DOMAIN X.cols : \A i \in DOMAIN X.index : IsNa(X.cols[c][i])
    THEN [status |-> "ValueError"]
    ELSE [status |-> "ok",
          index |-> RangeIndex(Len(X.index)),
          cols |-> [c \in DOMAIN X.cols |->
                      [i \in DOMAIN X.index |->
                          IF IsNa(X.cols[c][i]) THEN Est ELSE X.cols[c][i]]]]

\* the last two statements of handle_continuous_nans
with_target(X_cat, X_clean, tgt, y) ==
    [status |-> "ok", table |-> concat(X_cat, setitem(X_clean, tgt, y))]

handle_nans_of(X, X_cat, y, tgt, nans, dropped, imputed) ==
    CASE nans = "drop" ->
            IF Len(dropped.index) = 0 \/ DOMAIN dropped.cols = {}
            THEN [status |-> "RuntimeError", others |-> NanHandling \ {"drop"}]
            ELSE with_target(X_cat, dropped, tgt, y)
      [] nans \in {"mean", "median", "impute"} ->
            IF imputed.status # "ok" THEN imputed
            ELSE with_target(X_cat, [index |-> imputed.index, cols |-> imputed.cols],
                             tgt, y)
      [] OTHER -> [status |-> "NotImplementedError"]

\* the predictors that are not categorical, of the rows that have a target
continuous_of(d, tgt, cat_cols) == columns(d, DOMAIN d.cols \ (cat_cols \cup {tgt}))

rows_with_target(t, tgt) == loc(t, {i \in DOMAIN t.index : ~IsNa(t.cols[tgt][i])})

handle_continuous_nans(t, tgt, cat_cols, nans) ==
    handle_nans_of(continuous_of(rows_with_target(t, tgt), tgt, cat_cols),
                   columns(rows_with_target(t, tgt), cat_cols),
                   columns(rows_with_target(t, tgt), {tgt}),
                   tgt, nans,
                   dropna_columns_index(continuous_of(rows_with_target(t, tgt), tgt, cat_cols)),
                   impute(continuous_of(rows_with_target(t, tgt), tgt, cat_cols)))

\* tables of up to MaxRows rows under the default index, with the target y,
\* at most one continuous predictor x and at most one categorical predictor k
CleanCells(c) ==
    CASE c = "y" -> {NaN, Cell("int", 0)}
      [] c = "x" -> {NaN, Cell("float", 2)}
      [] c = "k" -> {NaN, Cell("word", 0)}

CleanColumn(c, n) == [1..n -> CleanCells(c)]

CleanTables ==
    UNION {{[index |-> RangeIndex(n), cols |-> cols] :
              cols \in {[y |-> y] : y \in CleanColumn("y", n)}
                \cup {[y |-> y, x |-> x] :
                        y \in CleanColumn("y", n), x \in CleanColumn("x", n)}
                \cup {[y |-> y, k |-> k] :
                        y \in CleanColumn("y", n), k \in CleanColumn("k", n)}
                \cup {[y |-> y, x |-> x, k |-> k] :
                        y \in CleanColumn("y", n), x \in CleanColumn("x", n),
                        k \in CleanColumn("k", n)}} :
           n \in 0..MaxRows}

\* ------------------------------------------------------- one-hot encoding
\* the parameters inspect_str_columns of inspection.py has no default for
InspectStrColumnsParameters == {"df", "str_cols", "categoricals", "ordinals"}

\* a call of inspect_str_columns that binds the parameters `bound`
call_inspect_str_columns(bound) ==
    IF InspectStrColumnsParameters \subseteq bound THEN "ok" ELSE "TypeError"

\* the parameters the two calls in encode_categoricals bind:
\* inspect_str_columns(X, str_cols, _warn=...)
EncodeCallBinds == {"df", "str_cols", "_warn"}

\* select_dtypes(include=["object", "string[python]"]): the columns of strings
str_cols_of(t, tgt) ==
    {c \in DOMAIN t.cols \ {tgt} :
        \E i \in DOMAIN t.index : t.cols[c][i].k \in {"word", "date", "istr", "fstr", "ovf"}}

\* len(np.unique(df[col])), the strings of a column that cannot be sorted
unique_count(t, c) == Cardinality({Str(t.cols[c][i]) : i \in DOMAIN t.index})

\* drop_id_cols: the string columns with at least len(df) // 5 levels
id_cols_of(t, tgt) ==
    {c \in str_cols_of(t, tgt) : unique_count(t, c) >= Len(t.index) \div 5}

\* get_cat_cols on the table without its identifier columns, for a list of
\* categoricals: the string columns left and the declared columns
get_cat_cols(t, tgt, cats) ==
    (str_cols_of(t, tgt) \cup cats) \ id_cols_of(t, tgt)

\* pd.get_dummies(X, columns=to_convert, ...).astype(float): a column of
\* strings that is not encoded cannot be cast
conversion(t, tgt, to_convert) ==
    IF str_cols_of(t, tgt) \ to_convert # {} THEN "ValueError" ELSE "ok"

\* the try statement of encode_categoricals and what follows it
convert_or_raise(t, converted, rerun, to_convert) ==
    CASE converted = "TypeError" ->
            IF rerun # "ok" THEN [status |-> rerun, line |-> 306, diagnostics |-> 1]
            ELSE [status |-> "RuntimeError", line |-> 307, diagnostics |-> 2]
      [] converted = "ok" ->
            [status |-> "ok", unencoded |-> columns(t, to_convert), diagnostics |-> 1]
      [] OTHER -> [status |-> converted, line |-> 304, diagnostics |-> 1]

encode_categoricals(t, tgt, cats) ==
    IF call_inspect_str_columns(EncodeCallBinds) # "ok"
    THEN [status |-> call_inspect_str_columns(EncodeCallBinds), line |-> 289,
          diagnostics |-> 0]
    ELSE convert_or_raise(t,
                          conversion(t, tgt, get_cat_cols(t, tgt, cats \ id_cols_of(t, tgt))),
                          call_inspect_str_columns(EncodeCallBinds),
                          get_cat_cols(t, tgt, cats \ id_cols_of(t, tgt)))

InitClean ==
    /\ \E t \in CleanTables, nans \in NanHandling :
         raw = [table |-> t, target |-> "y",
                cat_cols |-> DOMAIN t.cols \cap {"k"}, nans |-> nans]
    /\ cleaned = NoCall
    /\ series = NoSeries /\ verdict = NoVerdict
    /\ IdleTable /\ IdleTarget /\ IdlePrepared /\ IdlePipeline

CallHandleContinuousNans ==
    /\ cleaned.op = "none"
    /\ cleaned' = [op |-> "handle_continuous_nans",
                   out |-> handle_continuous_nans(raw.table, raw.target, raw.cat_cols,
                                                  raw.nans)]
    /\ UNCHANGED <<series, verdict, df, categoricals, ordinals, results, target,
                   encoded, tables, prepared, raw, pipeline>>

CallEncodeCategoricals ==
    /\ cleaned.op = "none"
    /\ cleaned' = [op |-> "encode_categoricals",
                   out |-> encode_categoricals(raw.table, raw.target, raw.cat_cols)]
    /\ UNCHANGED <<series, verdict, df, categoricals, ordinals, results, target,
                   encoded, tables, prepared, raw, pipeline>>

NextClean ==
    \/ CallHandleContinuousNans
    \/ CallEncodeCategoricals

SpecClean == InitClean /\ [][NextClean]_vars

\* ------------------------------------------------------------------ claims
\* the one subsample of a column of at most 500 rows: the whole column
Whole(s) == astype_str(s.vals)

\* the string/object and native integer predictors that no user list names
\* and that pass both the ordinal and the categorical check
BothOrdinalAndCategorical ==
    {c \in Predictors \ (categoricals \cup ordinals) :
        /\ df[c].dtype \in {"object", "int64"}
        /\ looks_ordinal(df[c]).v
        /\ looks_categorical(df[c], Whole(df[c])).v}

\* C1: inspect_data raises the ambiguity error if and only if some predictor
\* named in neither user list passes both the ordinal and the categorical
\* check, whatever its dtype, and the error lists exactly those columns.
C1_AmbiguityIffBothChecks ==
    results.status \in {"ok", "TypeError"} =>
        /\ (results.status = "TypeError") <=> (BothOrdinalAndCategorical # {})
        /\ results.status = "TypeError" => results.cols = BothOrdinalAndCategorical

\* the columns handed to a classification worker whose worker raises
RaisingColumns ==
    {c \in Predictors :
        /\ df[c].dtype \in {"object", "int64"}
        /\ inspect_str_column(c, df[c], categoricals, ordinals,
                              Whole(df[c]), Whole(df[c])).kind = "error"}

\* C2: when the classification of a column raises, inspect_data ends in an
\* InspectionError that names a raising column and carries its exception as
\* the cause, and returns no partition.
C2_WorkerFailureAborts ==
    (results.status # "none" /\ RaisingColumns # {}) =>
        /\ results.status = "InspectionError"
        /\ results.col \in RaisingColumns
        /\ results.cause = "OverflowError"
        /\ DOMAIN results = {"status", "col", "cause"}

\* C2 witness: one column raises while the other classifies normally
C2_Witness ==
    /\ results.status = "InspectionError"
    /\ \E c \in Predictors : c \notin RaisingColumns /\ df[c].dtype = "object"
                             /\ ~looks_constant(df[c]).v

DropCandidates ==
    DOMAIN results.ids \cup DOMAIN results.int_ids \cup DOMAIN results.times
    \cup DOMAIN results.consts

Retained ==
    DOMAIN results.floats \cup DOMAIN results.cats \cup results.bin_cats
    \cup results.multi_cats

\* C3: in every InspectionResults returned, no column of ids, int_ids, times
\* or consts is also in floats, cats, bin_cats or multi_cats, user-declared
\* categoricals included.
C3_DropAndRetainedDisjoint ==
    results.status = "ok" => DropCandidates \cap Retained = {}

\* the primary-type partitions a predictor is in; a user-declared ordinal
\* counts as ordinal and every categorical list counts as categorical
PrimaryTypes(c) ==
    {t \in {"id", "time", "const", "float", "ordinal", "categorical"} :
        \/ t = "id" /\ c \in DOMAIN results.ids \cup DOMAIN results.int_ids
        \/ t = "time" /\ c \in DOMAIN results.times
        \/ t = "const" /\ c \in DOMAIN results.consts
        \/ t = "float" /\ c \in DOMAIN results.floats
        \/ t = "ordinal" /\ c \in DOMAIN results.ords \cup DOMAIN results.int_ords
                                  \cup ordinals
        \/ t = "categorical" /\ c \in DOMAIN results.cats \cup results.bin_cats
                                      \cup results.multi_cats
                                      \cup DOMAIN results.nyan_cats}

\* C4: in every InspectionResults returned, each predictor is in exactly one
\* of the partitions id, time, const, float, ordinal, categorical.
C4_ExactlyOnePrimaryType ==
    results.status = "ok" =>
        \A c \in Predictors : Cardinality(PrimaryTypes(c)) = 1

\* the stringified values of `series` are a single value
OneDistinctStr == Cardinality({Str(c) : c \in DOMAIN series.vals}) = 1

\* C5: a column with exactly one distinct stringified value is constant, and
\* inspect_str_column stops there: only `const` is set.
C5_ConstantStops ==
    /\ (verdict.op = "looks_constant" /\ OneDistinctStr) => verdict.out.v
    /\ (verdict.op = "inspect_str_column" /\ OneDistinctStr) =>
          /\ verdict.out.kind = "desc"
          /\ verdict.out.const # None
          /\ \A f \in {"time", "ord", "id", "float", "cat"} : verdict.out[f] = None

\* C5 witness: a constant column of several rows that the ordinal check would
\* have accepted
C5_Witness ==
    /\ verdict.op = "inspect_str_column" /\ OneDistinctStr
    /\ NRows(series.vals) > 2
    /\ looks_ordinal(series).v
    /\ verdict.out.const # None

\* no two rows of `series` have the same stringified value
AllStrDistinct == \A c \in DOMAIN series.vals : astype_str(series.vals)[Str(c)] = 1

\* C6 as stated: looks_id_like accepts every column whose stringified values
\* are pairwise distinct, whatever the type of the values.
C6_AllUniqueIsIdLike ==
    (verdict.op = "looks_id_like" /\ AllStrDistinct) => verdict.out.v

IdReason == "All values including possible NaNs are unique"

\* C6 amended: looks_id_like accepts every object or integer column that is
\* not float-like and whose stringified values are pairwise distinct; a native
\* integer column of two or more rows, all distinct, lands in the ids
\* partition of inspect_str_columns with the all-unique reason.
C6_AllUniqueNotFloatIsIdLike ==
    /\ (/\ verdict.op = "looks_id_like" /\ AllStrDistinct
        /\ series.dtype \in {"object", "int64"} /\ ~looks_floatlike(series).v)
          => (verdict.out.v /\ verdict.out.desc = IdReason)
    /\ (/\ verdict.op = "inspect_str_columns" /\ AllStrDistinct
        /\ series.dtype = "int64" /\ NRows(series.vals) >= 2)
          => (/\ verdict.out.status = "ok"
              /\ "c" \in DOMAIN verdict.out.ids
              /\ verdict.out.ids["c"] = IdReason)

\* C6 witness: an all-distinct integer column of three rows in the ids partition
C6_Witness ==
    /\ verdict.op = "inspect_str_columns" /\ AllStrDistinct
    /\ series.dtype = "int64" /\ NRows(series.vals) = 3
    /\ "c" \in DOMAIN verdict.out.ids

\* the support of a stringified level in `series`
Support(level) == astype_str(series.vals)[level]

\* C7: every InflationInfo satisfies n_keep + n_deflate = n_total, every kept
\* level has support >= N_CAT_LEVEL_MIN and every deflated level has less.
C7_DeflationInvariant ==
    verdict.op = "detect_big_cats" =>
        \A info \in verdict.out.inflation :
            /\ info.n_keep + info.n_deflate = info.n_total
            /\ info.n_keep = Cardinality(info.to_keep)
            /\ info.n_deflate = Cardinality(info.to_deflate)
            /\ \A l \in info.to_keep : Support(l) >= N_CAT_LEVEL_MIN
            /\ \A l \in info.to_deflate : Support(l) < N_CAT_LEVEL_MIN

\* C7 witness: a record that keeps a level of support exactly N_CAT_LEVEL_MIN
\* and deflates a level one row short of it
C7_Witness ==
    /\ verdict.op = "detect_big_cats"
    /\ \E info \in verdict.out.inflation :
          /\ \E l \in info.to_keep : Support(l) = N_CAT_LEVEL_MIN
          /\ \E l \in info.to_deflate : Support(l) = N_CAT_LEVEL_MIN - 1

\* the classes of the input target, the missing label aside
Classes == {c \in DOMAIN target.y : ~IsNa(c)}

\* encode_target removed every row of class c from the table and the target
Removed(c) == c \notin DOMAIN encoded.y /\ c \notin DOMAIN encoded.df

\* C8: encode_target removes a class if and only if it has fewer than 20
\* rows; a class of exactly 20 rows is kept.
C8_RemovedIffBelowTwenty ==
    encoded.status = "ok" =>
        \A c \in Classes : Removed(c) <=> target.y[c] < 20

\* C9: the encoded target takes exactly the values 0..K-1 for the K classes
\* that survived, rows get equal labels iff they had equal classes, and the
\* returned table has as many rows as the returned target.
C9_DenseLabels ==
    encoded.status = "ok" =>
        LET survivors == {c \in Classes : ~Removed(c)}
            K == Cardinality(survivors)
        IN  /\ DOMAIN encoded.y = survivors
            /\ {encoded.y[c].label : c \in survivors} = 0..(K - 1)
            /\ \A c, d \in survivors :
                  (encoded.y[c].label = encoded.y[d].label) <=> (c = d)
            /\ NRows(encoded.df) = SumOver([c \in survivors |-> encoded.y[c].n],
                                           survivors)
            /\ \A c \in survivors : encoded.df[c] = encoded.y[c].n

\* C9 witness: the lowest class was removed, two classes survive, and rows
\* with missing labels were dropped
C9_Witness ==
    /\ encoded.status = "ok"
    /\ Cell("int", 0) \in Classes /\ Removed(Cell("int", 0))
    /\ Cardinality(DOMAIN encoded.y) = 2
    /\ NaN \in DOMAIN target.y

\* the tables whose row count differs from that of X
Offending(t) == {n \in {"X_cont", "X_cat", "y"} : Len(t[n]) # Len(t.X)}

TableOf(message) ==
    CASE message = "Continuous data" -> "X_cont"
      [] message = "Categorical data" -> "X_cat"
      [] message = "Target" -> "y"

\* C10: constructing a PreparedData raises an error naming an offending table
\* whenever X_cont, X_cat or y differs from X in row count, and leaves every
\* table as it was; with four equal row counts it raises nothing and keeps
\* the row counts.
C10_MismatchRaises ==
    [][(prepared.status = "none" /\ prepared'.status # "none") =>
          /\ (Offending(tables) # {}) <=> (prepared'.status = "ValueError")
          /\ prepared'.status = "ValueError" =>
                /\ TableOf(prepared'.table) \in Offending(tables)
                /\ tables' = tables
          /\ prepared'.status = "ok" =>
                \A t \in TableNames : /\ Len(prepared'[t]) = Len(tables[t])
                                      /\ Len(tables'[t]) = Len(tables[t])]_vars

\* C10 witness: the constructor raised although X_cont and X_cat are as long
\* as X: only the target is off
C10_Witness ==
    /\ prepared.status = "ValueError"
    /\ Offending(tables) = {"y"}
    /\ Len(tables.X) > 0

\* C11: after a PreparedData has been constructed, X, X_cont, X_cat and y have
\* the same row count n and the same dense row index 0..n-1, in the object
\* and in the caller's tables, which are re-indexed in place.
C11_DenseSharedIndex ==
    prepared.status = "ok" =>
        \A t \in TableNames :
            /\ prepared[t] = RangeIndex(Len(prepared.X))
            /\ tables[t] = prepared[t]

\* C11 witness: a PreparedData of at least one row was constructed
C11_Witness ==
    /\ prepared.status = "ok"
    /\ Len(prepared.X) >= 1
    /\ \A t \in TableNames : Len(prepared[t]) = Len(prepared.X)

\* the cleaning stage a call of prepare_data belongs to: 1 NaN-string
\* unification, 2 identifier/time removal, 3 target sanitation, 4 continuous
\* NaN handling, 5 categorical deflation, 6 categorical encoding; 0 for the
\* calls that are no cleaning stage
StageOf(call) ==
    CASE call = "unify_nans" -> 1
      [] call = "drop_unusable" -> 2
      [] call \in {"drop_target_nans", "encode_target", "clean_regression_target"} -> 3
      [] call = "handle_continuous_nans" -> 4
      [] call = "deflate_categoricals" -> 5
      [] call = "encode_categoricals" -> 6
      [] OTHER -> 0

\* C12: prepare_data runs the stages in the order NaN-string unification,
\* identifier/time removal, target sanitation, continuous NaN handling,
\* deflation, encoding: no call of a later stage precedes a call of an
\* earlier one, and a finished run has made all six.
C12_StagesInOrder ==
    /\ \A i, j \in DOMAIN pipeline.done :
          (i < j /\ StageOf(pipeline.done[i]) # 0 /\ StageOf(pipeline.done[j]) # 0)
             => StageOf(pipeline.done[i]) <= StageOf(pipeline.done[j])
    /\ pipeline.pc = "PreparedData" =>
          {StageOf(pipeline.done[i]) : i \in DOMAIN pipeline.done} \ {0} = 1..6

\* handle_continuous_nans has returned a table
Returned == cleaned.op = "handle_continuous_nans" /\ cleaned.out.status = "ok"

\* the rows of the table under cleaning that have a target
Kept == rows_with_target(raw.table, raw.target)

\* the predictor columns the drop strategy leaves: the categorical ones and
\* the continuous ones without a missing value
PredictorsLeft ==
    {c \in DOMAIN raw.table.cols \ {raw.target} :
        \/ c \in raw.cat_cols
        \/ \A i \in DOMAIN Kept.index : ~IsNa(Kept.cols[c][i])}

\* C13: with the drop strategy handle_continuous_nans raises the fatal error
\* that lists the other strategies exactly when dropping leaves no row or no
\* predictor column, and returns a table in every other case.
C13_DropRaisesIffNothingLeft ==
    (raw.nans = "drop" /\ cleaned.op = "handle_continuous_nans") =>
        /\ cleaned.out.status \in {"RuntimeError", "ok"}
        /\ cleaned.out.status = "RuntimeError" <=>
              (Len(Kept.index) = 0 \/ PredictorsLeft = {})
        /\ cleaned.out.status = "RuntimeError" =>
              cleaned.out.others = {"mean", "median", "impute"}

\* the continuous columns in which a missing value of a kept row is imputed
ImputedColumns ==
    {c \in DOMAIN raw.table.cols \ (raw.cat_cols \cup {raw.target}) :
        \E i \in DOMAIN Kept.index : IsNa(Kept.cols[c][i])}

\* the columns of the returned table that the table under cleaning had not
AddedColumns == DOMAIN cleaned.out.table.cols \ DOMAIN raw.table.cols

\* C19: under the mean, median and iterative strategies the table
\* handle_continuous_nans returns holds, for every continuous column in which
\* a missing value was imputed, an additional was-missing indicator column.
C19_ImputedColumnsGetIndicator ==
    (Returned /\ raw.nans \in {"mean", "median", "impute"}) =>
        Cardinality(AddedColumns) >= Cardinality(ImputedColumns)

\* the rows of the table under cleaning, by position, that have a target and
\* no missing value outside the categorical columns
CompleteRows ==
    {i \in DOMAIN raw.table.index :
        \A c \in DOMAIN raw.table.cols \ raw.cat_cols : ~IsNa(raw.table.cols[c][i])}

\* row i of the table under cleaning is row j of the returned table: the
\* columns the returned table kept hold the values of row i
SameRow(i, j) ==
    \A c \in DOMAIN raw.table.cols \cap DOMAIN cleaned.out.table.cols :
        cleaned.out.table.cols[c][j] = raw.table.cols[c][i]

\* C20: under every strategy the table handle_continuous_nans returns holds
\* every row that has a target and whose missing values are all categorical,
\* and holds the categorical columns of the rows with a target unchanged.
C20_CategoricalNansKeepRows ==
    Returned =>
        /\ \A i \in CompleteRows : \E j \in DOMAIN cleaned.out.table.index : SameRow(i, j)
        /\ \A c \in raw.cat_cols : cleaned.out.table.cols[c] = Kept.cols[c]

\* the string columns one-hot encoding leaves in the table: they cannot be
\* converted to float
Unconvertible ==
    str_cols_of(raw.table, raw.target)
        \ get_cat_cols(raw.table, raw.target, raw.cat_cols \ id_cols_of(raw.table, raw.target))

\* C14: when values that cannot be converted to float are left after the
\* one-hot encoding, encode_categoricals re-runs the diagnostics of the string
\* columns and raises RuntimeError: no other exception escapes and no table
\* is returned.
C14_UnconvertibleRaisesRuntimeError ==
    (cleaned.op = "encode_categoricals" /\ Unconvertible # {}) =>
        /\ cleaned.out.status = "RuntimeError"
        /\ cleaned.out.diagnostics = 2

\* the column under inspection is an integer column whose distinct values
\* are 0 and 1
BinaryColumn ==
    series.dtype = "int64" /\ DOMAIN series.vals = {Cell("int", 0), Cell("int", 1)}

Ints == {c.v : c \in DOMAIN series.vals}

\* the column under inspection is an integer column of at least 100 rows
\* with values in 0..100
ScaleColumn ==
    /\ series.dtype = "int64"
    /\ Ints \subseteq 0..100
    /\ NRows(series.vals) >= 100

\* the reason looks_ordinal gives for the scale maxima 100 and 99
ScaleReason(max) ==
    IF max = 100 THEN "Largest int is a common scale max"
    ELSE "Largest int is a common 0-indexed scale max"

Repeats == \E c \in DOMAIN series.vals : series.vals[c] > 1

Numeric == converts_to_int(series) \/ converts_to_float(series)

\* C17: looks_timelike returns false for every column that converts_to_int or
\* converts_to_float accepts, so inspect_str_column never describes such a
\* column as a time and remove_timestamps never removes it.
C17_NumericNeverTime ==
    Numeric =>
        /\ verdict.op = "looks_timelike" =>
              verdict.out.exc = "none" /\ ~verdict.out.v
        /\ verdict.op = "inspect_str_column" =>
              verdict.out.kind = "desc" /\ verdict.out.time = None
        /\ verdict.op = "remove_timestamps" =>
              verdict.out.status = "ok" /\ "c" \notin verdict.out.drops

\* C17 witness: remove_timestamps has run on a table with a column of
\* integer strings, rows of which are left, and has kept the column
C17_Witness ==
    /\ verdict.op = "remove_timestamps"
    /\ series.dtype = "object"
    /\ Numeric
    /\ NRows(verdict.kept) >= 1
    /\ verdict.out.status = "ok"
    /\ "c" \notin verdict.out.drops

\* C18: is_timelike never raises, so that looks_timelike always returns a
\* verdict.
C18_TimelikeAlwaysVerdict ==
    verdict.op = "looks_timelike" => verdict.out.exc = "none"

\* C21: inspect_data leaves the caller's table as it was, returning or
\* raising: no step changes the columns, dtypes or values of df.
C21_CallerTableUnchanged == [][df' = df]_vars

\* what a call of inspect_str_columns hands to its caller: the six
\* partitions, or the raising of InspectionError
Returned_partitions(out) ==
    IF out.status = "ok" THEN out ELSE [status |-> out.status]

\* C22: the partitions of inspect_str_columns depend on the values of the
\* columns only: two calls on the same table, whatever the order of the
\* listing, the order in which the workers finish and the subsamples drawn,
\* return the same partitions with the same reasons.
C22_PartitionsDependOnValuesOnly ==
    (verdict.op = "runs" /\ Len(verdict.outs) = MaxRuns) =>
        Returned_partitions(verdict.outs[1]) = Returned_partitions(verdict.outs[2])

\* the distinct stringified levels of the column under inspection
Levels == DOMAIN astype_str(series.vals)

\* C23: detect_big_cats emits a record for a categorical column if and only
\* if the column has more than 2 distinct stringified levels and some level has
\* support below N_CAT_LEVEL_MIN; in every record to_deflate is non-empty,
\* and to_deflate and to_keep are disjoint and together are the levels.
C23_RecordIffRareLevel ==
    verdict.op = "detect_big_cats" =>
        /\ (\E info \in verdict.out.inflation : info.col = "c")
              <=> /\ Cardinality(Levels) > 2
                  /\ \E l \in Levels : Support(l) < N_CAT_LEVEL_MIN
        /\ \A info \in verdict.out.inflation :
              /\ info.to_deflate # {}
              /\ info.to_deflate \cap info.to_keep = {}
              /\ info.to_deflate \cup info.to_keep = Levels

\* C23 witness: a record for a column of three levels, of which exactly one
\* is rare
C23_Witness ==
    /\ verdict.op = "detect_big_cats"
    /\ verdict.out.inflation # {}
    /\ Cardinality(Levels) = 3
    /\ Cardinality({l \in Levels : Support(l) < N_CAT_LEVEL_MIN}) = 1

\* C24: on an integer column in which some value repeats, looks_ordinal
\* returns true if and only if the gaps between neighbouring sorted distinct
\* values are all exactly 1 or the largest value is one of 4, 5, 6, 7, 9, 10,
\* 99, 100.
C24_RepeatedIntegersOrdinalIff ==
    (verdict.op = "looks_ordinal" /\ series.dtype = "int64" /\ Repeats) =>
        (verdict.out.v <=> \/ unq_diffs(Ints) = {1}
                           \/ MaxOf(Ints) \in {4, 5, 6, 7, 9, 10, 99, 100})

\* the product of (M - i) / M for i = 1 .. n - 2, as the fraction num / den
RECURSIVE UniqueProduct(_, _, _)
UniqueProduct(i, n, M) ==
    IF i > n - 2 THEN [num |-> 1, den |-> 1]
    ELSE LET p == UniqueProduct(i + 1, n, M)
         IN  [num |-> (M - i) * p.num, den |-> M * p.den]

\* C25: on an integer column of n values, all distinct, with maximum M,
\* looks_ordinal returns true exactly when the product of (M - i) / M for
\* i = 1 .. n - 2 is at least 0.5, and false with 'All unique values'
\* otherwise.
C25_AllUniqueOrdinalIffProduct ==
    (verdict.op = "looks_ordinal" /\ series.dtype = "int64" /\ ~Repeats) =>
        LET p == UniqueProduct(1, NRows(series.vals), MaxOf(Ints))
        IN  IF 2 * p.num >= p.den
            THEN verdict.out.v
            ELSE verdict.out = V(FALSE, "All unique values")

\* the rows of the column under inspection that are missing
Missing == NRows(series.vals) - NRows(dropna(series.vals))

\* no stringified value of the column, 'nan' included, occurs twice
AllDistinct == \A t \in Levels : Support(t) = 1

\* among the values that are not missing, all are distinct or the distinct
\* ones number at least half of the rows
ManyDistinct ==
    \/ \A c \in DOMAIN dropna(series.vals) : series.vals[c] = 1
    \/ 2 * Cardinality(DOMAIN dropna(series.vals)) >= NRows(dropna(series.vals))

\* C26 as claimed: on a column that is not float-like, looks_id_like returns
\* true if and only if all stringified values are distinct, or strictly fewer
\* than half of the rows are missing and the non-missing values are all
\* distinct or have at least half as many distinct values as rows.
C26_IdLikeIffUnderHalfMissing ==
    (verdict.op = "looks_id_like" /\ ~looks_floatlike(series).v) =>
        (verdict.out.v <=> \/ AllDistinct
                           \/ 2 * Missing < NRows(series.vals) /\ ManyDistinct)

\* C26 amended: the same with at most half of the rows missing; the column
\* is refused for its missing values only when they are more than half.
C26_IdLikeIffAtMostHalfMissing ==
    (verdict.op = "looks_id_like" /\ ~looks_floatlike(series).v) =>
        /\ verdict.out.v <=> \/ AllDistinct
                             \/ 2 * Missing <= NRows(series.vals) /\ ManyDistinct
        /\ (~AllDistinct /\ 2 * Missing > NRows(series.vals)) =>
              verdict.out = V(FALSE, "More than half of data is NaN")

\* C26 witness: a column found identifier-like with exactly half of its rows
\* missing
C26_Witness ==
    /\ verdict.op = "looks_id_like"
    /\ ~looks_floatlike(series).v
    /\ ~AllDistinct
    /\ 2 * Missing = NRows(series.vals)
    /\ verdict.out.v

\* the rows of the column under inspection that parse as numbers
Parsed == NRows(dropna(to_numeric(series).vals))

\* series.astype(float) fails: some value is neither a number, nor the
\* spelling of one, nor missing
NotFloatAsAWhole ==
    \E c \in DOMAIN series.vals : c.k \notin {"int", "float", "istr", "fstr", "nan"}

\* C27: on a column that is neither integer-coercible nor ordinal and that
\* does not convert to float as a whole, looks_floatlike returns true when
\* more than 20% of the values parse as numbers and false when fewer than 20%
\* do.
C27_FloatlikeAboveFifthParsed ==
    (/\ verdict.op = "looks_floatlike"
     /\ ~converts_to_int(series)
     /\ ~looks_ordinal(series).v
     /\ NotFloatAsAWhole) =>
        /\ 5 * Parsed > NRows(series.vals) => verdict.out.v
        /\ 5 * Parsed < NRows(series.vals) => ~verdict.out.v

\* the rows of a bag of strings that parse as dates
Dates(rows) == SumOver(rows, {t \in DOMAIN rows : t.k = "date"})

\* every level of the column under inspection has more than N_CAT_LEVEL_MIN
\* rows
WellSampled == \A t \in Levels : Support(t) > N_CAT_LEVEL_MIN

\* min(N, max(ceil(N / 2), 500))
SampleSize(N) ==
    LET half == (N + 1) \div 2
    IN  MinOf({N, MaxOf({half, SampleRows})})

\* C28: on a non-numeric column of N rows looks_timelike returns false when
\* every level occurs more than N_CAT_LEVEL_MIN times; otherwise it looks at
\* min(N, max(ceil(N / 2), 500)) rows and returns true if and only if all of
\* them parse as dates, or more than a third do and more than half of the rows
\* of its second look do.
C28_TimelikeBySubsample ==
    (verdict.op = "looks_timelike" /\ ~Numeric) =>
        /\ verdict.out.exc = "none"
        /\ IF WellSampled THEN ~verdict.out.v
           ELSE /\ NRows(verdict.sub) = SampleSize(NRows(series.vals))
                /\ verdict.out.v <=>
                      \/ Dates(verdict.sub) = NRows(verdict.sub)
                      \/ /\ 3 * Dates(verdict.sub) > NRows(verdict.sub)
                         /\ verdict.second.exc = "none"
                         /\ 2 * Dates(verdict.second.rows) > NRows(verdict.second.rows)

\* C30: on a non-numeric column of at most 500 rows with the default index
\* the subsample of looks_timelike is the whole column, and it returns true
\* exactly when some level has at most N_CAT_LEVEL_MIN rows and more than half
\* of all values parse as dates, whatever the permutation drawn.
C30_ShortColumnsDeterministic ==
    (/\ verdict.op = "looks_timelike"
     /\ verdict.index = "range"
     /\ ~Numeric
     /\ NRows(series.vals) <= SampleRows) =>
        /\ verdict.sub = astype_str(series.vals)
        /\ verdict.out.exc = "none"
        /\ verdict.out.v <=> /\ ~WellSampled
                             /\ 2 * Dates(astype_str(series.vals)) > NRows(series.vals)

\* the gaps between neighbouring sorted distinct integers of the column, as
\* the pairs of neighbours
Gaps ==
    {p \in Ints \X Ints : p[1] < p[2] /\ ~\E i \in Ints : p[1] < i /\ i < p[2]}

\* at least 80% of the gaps are 1
MostGapsOne ==
    /\ Gaps # {}
    /\ 5 * Cardinality({p \in Gaps : p[2] - p[1] = 1}) >= 4 * Cardinality(Gaps)

\* C29: inspect_str_columns puts into the ordinal partition every integer
\* column with a repeated value in which at least 80% of the gaps between
\* neighbouring sorted distinct values are 1, and when some gap is larger the
\* reason says that 80% or more of the unique integer values differ only by 1.
C29_MostlyConsecutiveIsOrdinal ==
    (/\ verdict.op = "inspect_str_columns"
     /\ series.dtype = "int64"
     /\ Repeats
     /\ MostGapsOne) =>
        /\ verdict.out.status = "ok"
        /\ "c" \in DOMAIN verdict.out.ords
        /\ (\E p \in Gaps : p[2] - p[1] > 1) =>
              verdict.out.ords["c"] = "80% or more of unique integer values differ only by 1"

=============================================================================
